---- MODULE Spec2Model ----
(***************************************************************************)
(* Model of the elapsed-time engine of react-native-animated-stopwatch-    *)
(* timer (src/src/useTimer.ts) together with the throttle wrapper it uses  *)
(* (src/src/utils/throttle.ts) and the owning component's props            *)
(* (src/src/StopwatchTimer.tsx).                                           *)
(*                                                                         *)
(* One state of the model is one point between two JavaScript tasks of a   *)
(* mounted hook: the committed React state (elapsedInMs), the three refs,  *)
(* the intervals the host has scheduled, the throttle instance memoised    *)
(* for the current onFinish, the props of the last render, and the passive *)
(* effects of the last commit that have not run yet.  A render is atomic   *)
(* with the state update or prop change that causes it; the passive        *)
(* effects of a commit run in one later step, before any other task.       *)
(* Times are milliseconds of Date.now().                                   *)
(***************************************************************************)
EXTENDS Integers, FiniteSets, Sequences, TLC

\* ---------------------------------------------------------------- bounds
\* Date.now() when the component mounts (any value above the throttle window)
Epoch == 1000
\* the clock stops advancing after this many ms past Epoch
MaxRun == 200
\* how far the clock moves in one step: less than a throttle window, or a
\* whole one (either is more than a sampling period)
Steps == {50, 100}
\* the values the initialTimeInMs prop takes (0 is also the default)
Durations == {0, 100, 150}
\* the identities the onFinish prop takes; UNDEF is "prop not passed"
UNDEF == 0
Callbacks == {UNDEF, 1, 2}
Modes == {"stopwatch", "timer"}
\* the arguments a wrapper is called with
ThrottleArgs == {1, 2}
\* calls suppressed in one window are counted up to
MaxSupp == 2
\* calls, invocations and cancels of a wrapper are counted up to
MaxCount == 5
\* the functions registered on an OptimizedTimer
OtCallbacks == {1, 2, 3}
\* times given to formatTimeWorklet: up to MaxHours hours, composed of
MaxHours == 2
\* entering calls counted per digit slot
MaxEnter == 2
\* registrations of one function that are outstanding together
MaxRegs == 2
FormatMinutes == {0, 1, 59}
FormatSeconds == {0, 5, 9, 10, 59}
FormatMillis == {0, 9, 10, 432, 999}

\* ------------------------------------------------------ program constants
\* null of a ref; JavaScript treats null and 0 alike in `!x` and in x + n
NULL == 0
\* default of the intervalMs option
intervalMs == 16
\* throttle(onFinish, 100, { trailing: false })
OnFinishWait == 100
\* the window the tests give a wrapper
ThrottleWait == 100
\* start(intervalMs = 16) of an OptimizedTimer
OtIntervalMs == 16
OnFinishLeading == TRUE
OnFinishTrailing == FALSE

VARIABLES
    clock,          \* Date.now()
    mounted,        \* the component is mounted
    mode,           \* prop mode of the last render
    initialTimeInMs,\* prop initialTimeInMs of the last render (defaulted)
    onFinish,       \* prop onFinish of the last render (UNDEF: defaulted)
    elapsedInMs,    \* React state of the last render
    startTime,      \* startTime.current
    pausedTime,     \* pausedTime.current
    intervalId,     \* intervalId.current
    timers,         \* intervals scheduled at the host: records [id, due]
    thr,            \* throttle closure: [previous, timeout]
    effects,        \* passive effects of the last commit still to run
    ot,             \* an OptimizedTimer: [intervalId, callbacks, isRunning]
    fmt,            \* a use of formatTimeWorklet: arguments and results
    digitMountStates, \* digitMountStates.value: one flag per digit slot
    hist            \* observations of the run (return values, callback calls)

vars == <<clock, mounted, mode, initialTimeInMs, onFinish,
          elapsedInMs, startTime, pausedTime, intervalId, timers, thr,
          effects, ot, fmt, digitMountStates, hist>>

\* the engine's own state: what play(), pause(), reset() and a tick may touch
engineVars == <<elapsedInMs, startTime, pausedTime, intervalId, timers>>

\* ------------------------------------------------ performance utilities
\* new OptimizedTimer()
NewOptimizedTimer == [intervalId |-> NULL, callbacks |-> {}, isRunning |-> FALSE]

\* formatTimeWorklet not called yet
NoFormat == [timeInMs |-> 0, needHour |-> FALSE, result |-> <<>>,
             negated |-> <<>>]

\* ----------------------------------------------------------- digit slots
DigitTypes == {"seconds", "tensOfSeconds", "minutes", "hours"}

\* useSharedValue({ seconds: false, tensOfSeconds: false, ... })
NoDigitMounted == [d \in DigitTypes |-> FALSE]

\* ------------------------------------------------------------- throttle
\* let timeout = null; let previous = 0
FreshThrottle == [previous |-> 0, timeout |-> NULL]

\* a wrapper that treats leading as enabled whatever the option says
ThrottledCall_LeadingAlways(t, now, wait, leading, trailing) ==
    LET remaining == wait - (now - t.previous)
    IN  IF remaining <= 0 \/ remaining > wait
          THEN [thr |-> [previous |-> now, timeout |-> NULL], fired |-> TRUE]
          ELSE IF t.timeout = NULL /\ trailing
            THEN [thr |-> [previous |-> t.previous,
                           timeout |-> now + remaining],
                  fired |-> FALSE]
            ELSE [thr |-> [previous |-> t.previous, timeout |-> t.timeout],
                  fired |-> FALSE]

\* a wrapper that invokes func without recording the time of the call
ThrottledCall_NoRecord(t, now, wait, leading, trailing) ==
    LET prev == IF t.previous = 0 /\ ~leading THEN now ELSE t.previous
        remaining == wait - (now - prev)
    IN  IF remaining <= 0 \/ remaining > wait
          THEN [thr |-> [previous |-> prev, timeout |-> NULL], fired |-> TRUE]
          ELSE IF t.timeout = NULL /\ trailing
            THEN [thr |-> [previous |-> prev, timeout |-> now + remaining],
                  fired |-> FALSE]
            ELSE [thr |-> [previous |-> prev, timeout |-> t.timeout],
                  fired |-> FALSE]

\* a wrapper that never arms the deferred call
ThrottledCall_NoTrailing(t, now, wait, leading, trailing) ==
    LET prev == IF t.previous = 0 /\ ~leading THEN now ELSE t.previous
        remaining == wait - (now - prev)
    IN  IF remaining <= 0 \/ remaining > wait
          THEN [thr |-> [previous |-> now, timeout |-> NULL], fired |-> TRUE]
          ELSE [thr |-> [previous |-> prev, timeout |-> t.timeout],
                fired |-> FALSE]

\* one call of the wrapper at time now; timeout holds the time the pending
\* deferred call is due.  Yields the closure afterwards and whether func ran.
ThrottledCall(t, now, wait, leading, trailing) ==
    LET prev == IF t.previous = 0 /\ ~leading THEN now ELSE t.previous
        remaining == wait - (now - prev)
    IN  IF remaining <= 0 \/ remaining > wait
          THEN [thr |-> [previous |-> now, timeout |-> NULL], fired |-> TRUE]
          ELSE IF t.timeout = NULL /\ trailing
            THEN [thr |-> [previous |-> prev, timeout |-> now + remaining],
                  fired |-> FALSE]
            ELSE [thr |-> [previous |-> prev, timeout |-> t.timeout],
                  fired |-> FALSE]

\* a deferred call that always forgets the window, as with leading disabled
ThrottleTimerFire_ResetPrevious(t, now, leading) ==
    [previous |-> 0, timeout |-> NULL]

\* a deferred call that leaves its own timer handle set
ThrottleTimerFire_KeepTimeout(t, now, leading) ==
    [previous |-> IF ~leading THEN 0 ELSE now, timeout |-> t.timeout]

\* the setTimeout callback of the wrapper, run at time now
ThrottleTimerFire(t, now, leading) ==
    [previous |-> IF ~leading THEN 0 ELSE now, timeout |-> NULL]

\* a cancel that clears the timer but keeps the window
ThrottleCancel_KeepPrevious(t) == [previous |-> t.previous, timeout |-> NULL]

\* throttled.cancel()
ThrottleCancel(t) == [previous |-> 0, timeout |-> NULL]

\* the wrapper as it would be with { leading: false, trailing: false }
CallThrottledOnFinish_LeadingOff(t, now) ==
    ThrottledCall(t, now, OnFinishWait, FALSE, OnFinishTrailing)

\* the wrapper as it would be with the default { trailing: true }
CallThrottledOnFinish_Trailing(t, now) ==
    ThrottledCall(t, now, OnFinishWait, OnFinishLeading, TRUE)

\* throttledOnFinish(): throttle(onFinish, 100, { trailing: false })
CallThrottledOnFinish(t, now) ==
    ThrottledCall(t, now, OnFinishWait, OnFinishLeading, OnFinishTrailing)

\* ------------------------------------------------------------ host timers
\* a clearInterval that cancels nothing
ClearInterval_Keep(ts, id) == ts

\* clearInterval(id): an id that is not scheduled is ignored
ClearInterval(ts, id) == {t \in ts : t.id # id}

\* the handle setInterval returns: one no scheduled interval has
NewHandle(ts) ==
    CHOOSE h \in 1..(Cardinality(ts) + 1) :
        /\ \A t \in ts : t.id # h
        /\ \A g \in 1..(h - 1) : \E t \in ts : t.id = g

\* ------------------------------------------------- the hook's callbacks
\* The callbacks work on the refs r = [intervalId, startTime, pausedTime,
\* timers] and read elapsedInMs, initialTimeInMs and mode of the last render.
Refs == [intervalId |-> intervalId, startTime |-> startTime,
         pausedTime |-> pausedTime, timers |-> timers]

\* getSnapshot: Math.abs(initialTimeInMs + elapsedInMs * direction)
Abs(x) == IF x < 0 THEN -x ELSE x
direction == IF mode = "timer" THEN -1 ELSE 1
getSnapshot == Abs(initialTimeInMs + elapsedInMs * direction)

\* removeInterval that forgets the handle without clearing the interval
removeInterval_Leak(r) == [r EXCEPT !.intervalId = NULL]

\* removeInterval
removeInterval(r) ==
    IF r.intervalId # NULL
      THEN [r EXCEPT !.timers = ClearInterval(r.timers, r.intervalId),
                     !.intervalId = NULL]
      ELSE r

\* play without its "already playing" early return
play_NoRunningGuard(r) ==
    IF elapsedInMs = initialTimeInMs /\ mode = "timer" THEN r
    ELSE LET h == NewHandle(r.timers)
         IN  [r EXCEPT
                !.startTime = IF r.startTime = NULL THEN clock ELSE r.startTime,
                !.intervalId = h,
                !.timers = r.timers \cup {[id |-> h, due |-> clock + intervalMs]}]

\* play
play(r) ==
    IF r.intervalId # NULL THEN r
    ELSE IF elapsedInMs = initialTimeInMs /\ mode = "timer" THEN r
    ELSE LET h == NewHandle(r.timers)
         IN  [r EXCEPT
                !.startTime = IF r.startTime = NULL THEN clock ELSE r.startTime,
                !.intervalId = h,
                !.timers = r.timers \cup {[id |-> h, due |-> clock + intervalMs]}]

\* pause that stamps the pause reference on every call
pause_AlwaysStamp(r) == [removeInterval(r) EXCEPT !.pausedTime = clock]

\* pause, without its return value
pause(r) ==
    LET q == removeInterval(r)
    IN  IF q.pausedTime = NULL /\ elapsedInMs > 0
          THEN [q EXCEPT !.pausedTime = clock]
          ELSE q

\* resetState, without the setElapsedInMs(0)
resetState(r) == [r EXCEPT !.startTime = NULL, !.pausedTime = NULL]

\* reset that leaves the start and pause references alone
reset_KeepRefs(r) == removeInterval(r)

\* reset, without the setElapsedInMs(0)
reset(r) == resetState(removeInterval(r))

\* ---------------------------------------------------------------- render
NoEffects == [cleanup |-> FALSE, reset |-> FALSE, completion |-> FALSE,
              autostart |-> FALSE]

\* One render and commit of the component with state e and props m, d, cb;
\* t is the throttle closure memoised so far.  useMemo([onFinish]) makes a
\* new throttle when onFinish changed identity; `onFinish = () => null`
\* makes a new identity in every render when the prop is not passed.  The
\* effects whose dependencies changed are left to run.
Commit(e, m, d, cb, t) ==
    LET changed == cb = UNDEF \/ cb # onFinish
    IN  /\ elapsedInMs' = e
        /\ mode' = m
        /\ initialTimeInMs' = d
        /\ onFinish' = cb
        /\ thr' = IF changed THEN FreshThrottle ELSE t
        /\ effects' = [cleanup |-> changed,
                       reset |-> d # initialTimeInMs,
                       completion |-> \/ e # elapsedInMs
                                      \/ d # initialTimeInMs
                                      \/ m # mode
                                      \/ changed,
                       autostart |-> FALSE]

\* setElapsedInMs(v) outside a render: an equal value bails out
SetElapsedInMs(v, t) ==
    IF v # elapsedInMs
      THEN Commit(v, mode, initialTimeInMs, onFinish, t)
      ELSE /\ UNCHANGED <<elapsedInMs, mode, initialTimeInMs, onFinish>>
           /\ thr' = t
           /\ effects' = NoEffects

SetRefs(r) ==
    /\ intervalId' = r.intervalId
    /\ startTime' = r.startTime
    /\ pausedTime' = r.pausedTime
    /\ timers' = r.timers

\* no task is running and no effect is waiting
Idle == mounted /\ effects = NoEffects

Min(a, b) == IF a < b THEN a ELSE b

\* ----------------------------------------------------------------- Init
\* first render done, its effects (all of them) not yet run; the autostart
\* prop is read by the mount effect only and lives in effects.autostart
InitWith(track) ==
    /\ clock = Epoch
    /\ mounted = TRUE
    /\ mode \in Modes
    /\ initialTimeInMs \in Durations
    /\ onFinish \in Callbacks
    /\ elapsedInMs = 0
    /\ startTime = NULL
    /\ pausedTime = NULL
    /\ intervalId = NULL
    /\ timers = {}
    /\ thr = FreshThrottle
    /\ ot = NewOptimizedTimer
    /\ fmt = NoFormat
    /\ digitMountStates = NoDigitMounted
    /\ \E a \in BOOLEAN :
          effects = [cleanup |-> FALSE, reset |-> TRUE, completion |-> TRUE,
                     autostart |-> a]
    /\ hist = [lastOp |-> "mount", fired |-> FALSE,
               thrCalled |-> FALSE, prevBefore |-> 0,
               finishSeen |-> FALSE, calls |-> 0, resumeLag |-> -1,
               track |-> track, ranMs |-> 0, playing |-> FALSE,
               afterReset |-> FALSE, dChanged |-> FALSE,
               wasRunning |-> FALSE, repeat |-> FALSE,
               stopped |-> FALSE, played |-> FALSE]

Init == InitWith(FALSE)

\* what every step but RunEffects records: no callback ran in it
Quiet(h) == [h EXCEPT !.fired = FALSE, !.thrCalled = FALSE,
                      !.resumeLag = -1, !.wasRunning = FALSE,
                      !.repeat = FALSE, !.prevBefore = 0]

\* -------------------------------------------------------------- actions
\* time passes
Advance(d) ==
    /\ Idle
    /\ clock + d <= Epoch + MaxRun
    /\ clock' = clock + d
    /\ hist' = [Quiet(hist) EXCEPT
                  !.resumeLag = hist.resumeLag,
                  !.ranMs = IF hist.playing THEN @ + d ELSE @]
    /\ UNCHANGED <<ot, fmt, digitMountStates>>
    /\ UNCHANGED <<mounted, mode, initialTimeInMs, onFinish,
                   elapsedInMs, startTime, pausedTime, intervalId, timers,
                   thr, effects>>

\* ref.current.play()
Play ==
    /\ Idle
    /\ SetRefs(play(Refs))
    /\ hist' = [Quiet(hist) EXCEPT
                  !.lastOp = "play", !.playing = hist.track,
                  !.wasRunning = (timers # {}),
                  !.stopped = FALSE, !.played = TRUE,
                  !.afterReset = FALSE, !.dChanged = FALSE]
    /\ UNCHANGED <<ot, fmt, digitMountStates>>
    /\ UNCHANGED <<clock, mounted, mode, initialTimeInMs, onFinish,
                   elapsedInMs, thr, effects>>

\* ref.current.pause()
Pause ==
    /\ Idle
    /\ SetRefs(pause(Refs))
    /\ hist' = [Quiet(hist) EXCEPT
                  !.lastOp = "pause", !.playing = FALSE,
                  !.wasRunning = (timers # {}),
                  !.repeat = (hist.lastOp = "pause"),
                  !.stopped = TRUE,
                  !.afterReset = FALSE, !.dChanged = FALSE]
    /\ UNCHANGED <<ot, fmt, digitMountStates>>
    /\ UNCHANGED <<clock, mounted, mode, initialTimeInMs, onFinish,
                   elapsedInMs, thr, effects>>

\* ref.current.reset()
Reset ==
    /\ Idle
    /\ SetRefs(reset(Refs))
    /\ SetElapsedInMs(0, thr)
    /\ hist' = [Quiet(hist) EXCEPT
                  !.lastOp = "reset", !.playing = FALSE, !.ranMs = 0,
                  !.wasRunning = (timers # {}), !.stopped = TRUE,
                  !.finishSeen = FALSE, !.calls = 0,
                  !.afterReset = FALSE, !.dChanged = FALSE]
    /\ UNCHANGED <<ot, fmt, digitMountStates>>
    /\ UNCHANGED <<clock, mounted>>

\* a getSnapshot that samples the clock into the engine state
GetSnapshot_Resample ==
    /\ Idle
    /\ SetElapsedInMs(clock - startTime, thr)
    /\ hist' = [Quiet(hist) EXCEPT
                  !.lastOp = "getSnapshot",
                  !.repeat = (hist.lastOp = "getSnapshot")]
    /\ UNCHANGED <<ot, fmt, digitMountStates>>
    /\ UNCHANGED <<clock, mounted, startTime, pausedTime, intervalId, timers>>

\* ref.current.getSnapshot()
GetSnapshot ==
    /\ Idle
    /\ hist' = [Quiet(hist) EXCEPT
                  !.lastOp = "getSnapshot",
                  !.repeat = (hist.lastOp = "getSnapshot"),
                  !.afterReset = \/ hist.lastOp = "reset"
                                 \/ hist.lastOp = "getSnapshot" /\ @]
    /\ UNCHANGED <<ot, fmt, digitMountStates>>
    /\ UNCHANGED <<clock, mounted, mode, initialTimeInMs, onFinish,
                   elapsedInMs, startTime, pausedTime, intervalId, timers,
                   thr, effects>>

\* the callback given to setInterval fires for the scheduled interval t
Tick(t) ==
    /\ Idle
    /\ t \in timers
    /\ clock >= t.due
    /\ LET ts == (timers \ {t}) \cup {[id |-> t.id, due |-> clock + intervalMs]}
       IN  IF pausedTime = NULL
             THEN /\ SetElapsedInMs(clock - startTime, thr)
                  /\ timers' = ts
                  /\ UNCHANGED <<startTime, pausedTime, intervalId>>
                  /\ hist' = [Quiet(hist) EXCEPT
                        !.lastOp = "tick",
                        !.afterReset = FALSE, !.dChanged = FALSE,
                        !.finishSeen = @ \/ (/\ mode = "timer"
                              /\ onFinish # UNDEF
                              /\ clock - startTime >= initialTimeInMs),
                        !.calls = IF ~hist.finishSeen THEN 0 ELSE @]
             ELSE /\ startTime' = startTime + (clock - pausedTime)
                  /\ pausedTime' = NULL
                  /\ timers' = ts
                  /\ UNCHANGED <<intervalId, elapsedInMs, mode,
                                 initialTimeInMs, onFinish, thr, effects>>
                  /\ hist' = [Quiet(hist) EXCEPT !.lastOp = "tick",
                        !.afterReset = FALSE, !.dChanged = FALSE,
                        !.resumeLag = clock - (t.due - intervalMs)]
    /\ UNCHANGED <<ot, fmt, digitMountStates>>
    /\ UNCHANGED <<clock, mounted>>

\* the parent renders the component with props m, d, cb (React.memo lets
\* the render through because some prop, possibly another one, changed)
ParentRender(m, d, cb) ==
    /\ Idle
    /\ Commit(elapsedInMs, m, d, cb, thr)
    /\ hist' = [Quiet(hist) EXCEPT
                  !.lastOp = IF (m # mode \/ d # initialTimeInMs)
                                /\ cb = onFinish
                             THEN "config" ELSE "render",
                  !.afterReset = FALSE,
                  !.dChanged = (d # initialTimeInMs /\ m = mode),
                  !.finishSeen = /\ @
                                 /\ m = mode
                                 /\ d = initialTimeInMs
                                 /\ cb # UNDEF]
    /\ UNCHANGED <<ot, fmt, digitMountStates>>
    /\ UNCHANGED <<clock, mounted, startTime, pausedTime,
                   intervalId, timers>>

\* a component that ignores autostart
autostartPlay_Never(r) == r

\* the component's effect on []: if (autostart) play()
autostartPlay(r) == IF effects.autostart THEN play(r) ELSE r

\* the passive effects of the last commit, in the order the hook and the
\* component declare them, then the render their state updates ask for
RunEffects ==
    /\ mounted
    /\ effects # NoEffects
    /\ LET \* cleanup of the effect on [throttledOnFinish]
           r1 == IF effects.cleanup /\ intervalId # NULL
                   THEN [Refs EXCEPT
                           !.timers = ClearInterval(timers, intervalId)]
                   ELSE Refs
           \* effect on [initialTimeInMs]: reset()
           r2 == IF effects.reset THEN reset(r1) ELSE r1
           \* effect on [elapsedInMs, initialTimeInMs, mode, ...]
           finish == /\ effects.completion
                     /\ mode = "timer"
                     /\ elapsedInMs >= initialTimeInMs
           r3 == IF finish THEN removeInterval(r2) ELSE r2
           call == CallThrottledOnFinish(thr, clock)
           t3 == IF finish THEN call.thr ELSE thr
           \* the component's effect on []: if (autostart) play()
           r4 == autostartPlay(r3)
           \* the last setElapsedInMs of the batch wins
           e == IF finish THEN initialTimeInMs
                ELSE IF effects.reset THEN 0 ELSE elapsedInMs
       IN  /\ SetRefs(r4)
           /\ SetElapsedInMs(e, t3)
           /\ hist' = [hist EXCEPT
                 !.lastOp = IF @ # "mount" THEN @
                            ELSE IF effects.autostart THEN "autostart"
                            ELSE "mounted",
                 !.played = @ \/ effects.autostart,
                 !.fired = finish /\ call.fired,
                 !.thrCalled = finish,
                 !.prevBefore = IF finish THEN thr.previous ELSE 0,
                 !.calls = IF finish /\ call.fired /\ onFinish # UNDEF
                             THEN Min(@ + 1, 3) ELSE @,
                 !.playing = IF effects.autostart THEN hist.track
                             ELSE IF effects.reset THEN FALSE
                             ELSE @,
                 !.ranMs = IF effects.reset THEN 0 ELSE @,
                 !.finishSeen = IF effects.reset THEN FALSE ELSE @]
    /\ UNCHANGED <<ot, fmt, digitMountStates>>
    /\ UNCHANGED <<clock, mounted>>

\* the component unmounts: the cleanup of the effect on [throttledOnFinish]
Unmount ==
    /\ Idle
    /\ mounted' = FALSE
    /\ timers' = IF intervalId # NULL THEN ClearInterval(timers, intervalId)
                 ELSE timers
    /\ thr' = ThrottleCancel(thr)
    /\ hist' = [Quiet(hist) EXCEPT !.lastOp = "unmount", !.stopped = TRUE]
    /\ UNCHANGED <<ot, fmt, digitMountStates>>
    /\ UNCHANGED <<clock, mode, initialTimeInMs, onFinish,
                   elapsedInMs, startTime, pausedTime, intervalId, effects>>

Next ==
    \/ \E d \in Steps : Advance(d)
    \/ Play
    \/ Pause
    \/ Reset
    \/ GetSnapshot
    \/ \E t \in timers : Tick(t)
    \/ \E m \in Modes, d \in Durations, cb \in Callbacks : ParentRender(m, d, cb)
    \/ RunEffects
    \/ Unmount

Spec == Init /\ [][Next]_vars

\* The engine driven by play(), pause(), getSnapshot() and ticks only: the
\* props stay as mounted and nobody resets or unmounts.  Here hist.ranMs
\* counts the wall-clock time that passed between a play() and the next
\* pause().
InitControl == InitWith(TRUE)

NextControl ==
    \/ \E d \in Steps : Advance(d)
    \/ Play
    \/ Pause
    \/ GetSnapshot
    \/ \E t \in timers : Tick(t)
    \/ RunEffects

SpecControl == InitControl /\ [][NextControl]_vars

\* ------------------------------------------- a run left to its interval
\* The engine after mount when nothing pauses, resets or unmounts it and
\* its configuration stays: the clock advances, the interval fires, the
\* effects run, and the owner may re-render the component with the same
\* mode and initialTimeInMs.
AdvanceAny == \E d \in Steps : Advance(d)

TickAny == \E t \in timers : Tick(t)

RenderSameConfig == \E cb \in Callbacks : ParentRender(mode, initialTimeInMs, cb)

NextRun ==
    \/ AdvanceAny
    \/ Play
    \/ TickAny
    \/ RenderSameConfig
    \/ RunEffects

\* the host runs an interval callback that is due, time does not stop and
\* React flushes passive effects
SpecRun ==
    /\ Init
    /\ [][NextRun]_vars
    /\ SF_vars(AdvanceAny)
    /\ SF_vars(TickAny)
    /\ WF_vars(RunEffects)

\* ------------------------------------------------------------- properties
\* the engine finished a run: a tick of the running timer reached the
\* duration while the caller had passed an onFinish, the effects of that
\* commit have run, and every render since kept mode and initialTimeInMs
\* and passed an onFinish
Finished == hist.finishSeen /\ effects = NoEffects

\* C1: in timer mode every transition from Running to Finished invokes
\* onFinish exactly once, whatever ticks, effect re-runs and re-renders
\* follow before the next reset() (hist.calls counts the invocations of a
\* caller's onFinish since the transition).
C1_OnFinishExactlyOnce == Finished => hist.calls = 1

\* C2: in timer mode with initialTimeInMs = D > 0, getSnapshot() of the
\* finished engine returns exactly D.
C2_SnapshotAtFinishIsDuration ==
    (/\ hist.lastOp = "getSnapshot"
     /\ Finished
     /\ mode = "timer"
     /\ initialTimeInMs > 0
     /\ elapsedInMs = initialTimeInMs) => getSnapshot = initialTimeInMs

\* C3: the tick that resumes a paused engine advances the start reference
\* by exactly (time of play() - time of pause()): the advance it applies,
\* (time of the tick - time of pause()), has no lag over the play() call.
C3_ResumeShiftIsPausedInterval ==
    hist.resumeLag # -1 => hist.resumeLag = 0

\* C4: for every sequence of play(), pause() and ticks, elapsed time holds
\* no wall-clock time that passed between a pause() and the next play(): it
\* is at most the time that passed while the engine was played.
C4_NoPausedTimeCounted == hist.track => elapsedInMs <= hist.ranMs

\* C5: in timer mode elapsedMs is at most initialTimeInMs in every state,
\* the state right after a sampling tick (before the completion check)
\* included.
C5_ElapsedClampedAfterTick ==
    (mode = "timer" /\ hist.lastOp = "tick") => elapsedInMs <= initialTimeInMs

\* C6: after initialTimeInMs changed on a mounted engine (the mode kept) and
\* the effects of that render have run, the engine is in the reset state.
C6_DurationChangeResets ==
    (hist.dChanged /\ effects = NoEffects) =>
        /\ timers = {}
        /\ elapsedInMs = 0
        /\ startTime = NULL
        /\ pausedTime = NULL

\* C7: reset() followed by getSnapshot() returns 0, in both modes.
C7_SnapshotAfterResetIsZero ==
    (hist.lastOp = "getSnapshot" /\ hist.afterReset) => getSnapshot = 0

\* C8: a caller's onFinish is invoked only in timer mode with an
\* initialTimeInMs provided (non-zero: the default of the prop is 0).
C8_OnFinishOnlyTimerWithDuration ==
    (hist.fired /\ onFinish # UNDEF) =>
        (mode = "timer" /\ initialTimeInMs > 0)

\* C9 (as claimed): the wrapper around onFinish has leading disabled and
\* trailing disabled: the first call of a fresh wrapper does not invoke
\* onFinish, and no deferred call is ever pending.
C9_LeadingAndTrailingDisabled ==
    /\ thr.timeout = NULL
    /\ (hist.thrCalled /\ hist.prevBefore = 0) => ~hist.fired

\* C9 (amended): the wrapper around onFinish has a 100 ms window, leading
\* enabled and trailing disabled: a call invokes onFinish synchronously
\* exactly when the wrapper is fresh or its last invocation is at least
\* 100 ms old, and no deferred call is ever pending.
C9_ThrottleWindowLeadingOnly ==
    /\ thr.timeout = NULL
    /\ hist.thrCalled => (hist.fired <=> clock - hist.prevBefore >= 100)

\* a finished run delivered a caller's onFinish through a fresh wrapper
C9_Witness ==
    /\ hist.thrCalled
    /\ hist.fired
    /\ hist.prevBefore = 0
    /\ hist.finishSeen
    /\ onFinish # UNDEF

\* C10: play() on an engine that is already running changes nothing: no
\* second interval, same start reference, pause reference and elapsed time.
C10_PlayWhileRunningIsNoOp ==
    [][(Play /\ timers # {}) => UNCHANGED engineVars]_vars

\* play() has just been called on an engine with its interval scheduled
C10_Witness ==
    /\ hist.lastOp = "play"
    /\ hist.wasRunning
    /\ Cardinality(timers) = 1
    /\ elapsedInMs > 0

\* ------------------------------------------- the throttle wrapper alone
\* throttle(fn, ThrottleWait, { leading, trailing }) called with one
\* argument.  thr holds the closure (previous, timeout) and the options;
\* timers holds the host's pending setTimeout callbacks, each with the
\* handle the closure knows it by, its due time and the argument its
\* closure captured.  hist observes: the invocation of fn made by the last
\* step, the argument of the latest call, the time fn was last invoked,
\* the window (its start and the calls suppressed in it) before and after
\* the last step, and how many calls, invocations and cancels there have
\* been.  A window starts when fn is invoked with leading enabled, or at
\* the first call made while none is open; a deferred invocation with
\* leading disabled, and cancel(), close it.
InitThrottle ==
    /\ clock = Epoch
    /\ mounted = FALSE
    /\ mode = "stopwatch"
    /\ initialTimeInMs = 0
    /\ onFinish = UNDEF
    /\ elapsedInMs = 0
    /\ startTime = NULL
    /\ pausedTime = NULL
    /\ intervalId = NULL
    /\ timers = {}
    /\ effects = NoEffects
    /\ ot = NewOptimizedTimer
    /\ fmt = NoFormat
    /\ digitMountStates = NoDigitMounted
    /\ \E l \in BOOLEAN, tr \in BOOLEAN :
          thr = [previous |-> 0, timeout |-> NULL,
                 leading |-> l, trailing |-> tr]
    /\ hist = [lastOp |-> "new", fired |-> FALSE, firedArgs |-> 0,
               callArgs |-> 0, invokedBefore |-> 0, lastInvoke |-> 0,
               winBefore |-> 0, winStart |-> 0,
               suppBefore |-> 0, supp |-> 0,
               nCalls |-> 0, nAtStart |-> 0, nInvoked |-> 0,
               cancels |-> 0, sinceCancel |-> FALSE, afterCancel |-> FALSE]

EngineUnchanged ==
    UNCHANGED <<mounted, mode, initialTimeInMs, onFinish, elapsedInMs,
                startTime, pausedTime, intervalId, effects, ot, fmt,
                digitMountStates>>

\* throttled(a)
ThrottleCall(a) ==
    LET res == ThrottledCall(thr, clock, ThrottleWait,
                             thr.leading, thr.trailing)
        armed == thr.timeout = NULL /\ res.thr.timeout # NULL
        cleared == thr.timeout # NULL /\ res.thr.timeout = NULL
    IN  /\ thr' = [thr EXCEPT
                     !.previous = res.thr.previous,
                     !.timeout = res.thr.timeout]
        /\ timers' =
             IF cleared THEN ClearInterval(timers, thr.timeout)
             ELSE IF armed
               THEN timers \cup {[id |-> res.thr.timeout,
                                  due |-> res.thr.timeout, args |-> a]}
             ELSE timers
        /\ hist' = [hist EXCEPT
                     !.lastOp = "call",
                     !.fired = res.fired,
                     !.firedArgs = IF res.fired THEN a ELSE 0,
                     !.callArgs = a,
                     !.invokedBefore = hist.lastInvoke,
                     !.lastInvoke = IF res.fired THEN clock ELSE @,
                     !.winBefore = hist.winStart,
                     !.winStart = IF res.fired \/ @ = 0 THEN clock ELSE @,
                     !.suppBefore = hist.supp,
                     !.supp = IF res.fired THEN 0 ELSE Min(@ + 1, MaxSupp),
                     !.nCalls = Min(@ + 1, MaxCount),
                     !.nAtStart = IF clock = Epoch
                                    THEN Min(@ + 1, MaxCount) ELSE @,
                     !.nInvoked = IF res.fired
                                    THEN Min(@ + 1, MaxCount) ELSE @,
                     !.sinceCancel = FALSE,
                     !.afterCancel = hist.sinceCancel]
        /\ UNCHANGED clock
        /\ EngineUnchanged

\* the host runs the pending setTimeout callback t, at or after its due time
ThrottleTimer(t) ==
    /\ clock >= t.due
    /\ timers' = timers \ {t}
    /\ LET c == ThrottleTimerFire(thr, clock, thr.leading)
       IN  thr' = [thr EXCEPT !.previous = c.previous,
                              !.timeout = c.timeout]
    /\ hist' = [hist EXCEPT
                  !.lastOp = "timer",
                  !.fired = TRUE,
                  !.firedArgs = t.args,
                  !.invokedBefore = hist.lastInvoke,
                  !.lastInvoke = clock,
                  !.winBefore = hist.winStart,
                  !.winStart = IF thr.leading THEN clock ELSE 0,
                  !.suppBefore = hist.supp,
                  !.supp = 0,
                  !.nInvoked = Min(@ + 1, MaxCount),
                  !.afterCancel = FALSE]
    /\ UNCHANGED clock
    /\ EngineUnchanged

\* throttled.cancel()
ThrottleCancelCall ==
    /\ LET c == ThrottleCancel(thr)
       IN  thr' = [thr EXCEPT !.previous = c.previous,
                              !.timeout = c.timeout]
    /\ timers' = IF thr.timeout # NULL
                   THEN ClearInterval(timers, thr.timeout) ELSE timers
    /\ hist' = [hist EXCEPT
                  !.lastOp = "cancel", !.fired = FALSE, !.firedArgs = 0,
                  !.callArgs = 0, !.invokedBefore = 0, !.lastInvoke = 0,
                  !.winBefore = hist.winStart, !.winStart = 0,
                  !.suppBefore = hist.supp, !.supp = 0,
                  !.cancels = Min(@ + 1, MaxCount),
                  !.sinceCancel = TRUE, !.afterCancel = FALSE]
    /\ UNCHANGED clock
    /\ EngineUnchanged

\* Date.now() moves on by d
ThrottleAdvance(d) ==
    /\ clock + d <= Epoch + MaxRun
    /\ clock' = clock + d
    /\ hist' = [hist EXCEPT !.lastOp = "advance", !.fired = FALSE,
                            !.firedArgs = 0, !.afterCancel = FALSE]
    /\ UNCHANGED <<thr, timers>>
    /\ EngineUnchanged

NextThrottle ==
    \/ \E a \in ThrottleArgs : ThrottleCall(a)
    \/ \E t \in timers : ThrottleTimer(t)
    \/ ThrottleCancelCall
    \/ \E d \in Steps : ThrottleAdvance(d)

SpecThrottle == InitThrottle /\ [][NextThrottle]_vars

\* The wrapper when cancel() is never called, on a host that runs a timer
\* callback once it is due and whose clock keeps moving.
ThrottleCallAny == \E a \in ThrottleArgs : ThrottleCall(a)

ThrottleTimerAny == \E t \in timers : ThrottleTimer(t)

ThrottleAdvanceAny == \E d \in Steps : ThrottleAdvance(d)

NextThrottleFair ==
    \/ ThrottleCallAny
    \/ ThrottleTimerAny
    \/ ThrottleAdvanceAny

SpecThrottleFair ==
    /\ InitThrottle
    /\ [][NextThrottleFair]_vars
    /\ WF_vars(ThrottleTimerAny)
    /\ WF_vars(ThrottleAdvanceAny)

\* ---------------------------------------------------- formatTimeWorklet
\* formatTimeWorklet with minutes never wrapped at the hour
formatTimeWorklet_MinutesNotWrapped(timeInMs, needHour) ==
    LET countInSeconds == Abs(timeInMs) \div 1000
    IN  [tensOfMs |-> (Abs(timeInMs) \div 10) % 100,
         lastDigit |-> countInSeconds % 10,
         tens |-> (countInSeconds \div 10) % 6,
         minutes |-> countInSeconds \div 60,
         hours |-> countInSeconds \div 3600]

\* formatTimeWorklet with the tens of seconds never wrapped at the minute
formatTimeWorklet_TensNotWrapped(timeInMs, needHour) ==
    LET countInSeconds == Abs(timeInMs) \div 1000
    IN  [tensOfMs |-> (Abs(timeInMs) \div 10) % 100,
         lastDigit |-> countInSeconds % 10,
         tens |-> countInSeconds \div 10,
         minutes |-> IF needHour THEN (countInSeconds % 3600) \div 60
                     ELSE countInSeconds \div 60,
         hours |-> countInSeconds \div 3600]

\* formatTimeWorklet without Math.abs on the seconds
formatTimeWorklet_NoAbs(timeInMs, needHour) ==
    LET countInSeconds == timeInMs \div 1000
    IN  [tensOfMs |-> (Abs(timeInMs) \div 10) % 100,
         lastDigit |-> countInSeconds % 10,
         tens |-> (countInSeconds \div 10) % 6,
         minutes |-> IF needHour THEN (countInSeconds % 3600) \div 60
                     ELSE countInSeconds \div 60,
         hours |-> countInSeconds \div 3600]

\* formatTimeWorklet, on whole milliseconds: Math.floor(a / b) of
\* non-negative integers is a \div b
formatTimeWorklet(timeInMs, needHour) ==
    LET countInSeconds == Abs(timeInMs) \div 1000
    IN  [tensOfMs |-> (Abs(timeInMs) \div 10) % 100,
         lastDigit |-> countInSeconds % 10,
         tens |-> (countInSeconds \div 10) % 6,
         minutes |-> IF needHour THEN (countInSeconds % 3600) \div 60
                     ELSE countInSeconds \div 60,
         hours |-> countInSeconds \div 3600]

\* the non-negative times the function is given
FormatTimes ==
    {h * 3600000 + m * 60000 + sec * 1000 + ms :
        h \in 0..MaxHours, m \in FormatMinutes,
        sec \in FormatSeconds, ms \in FormatMillis}

\* one pair of arguments, a time of either sign and needHour; nothing of
\* the engine or of a throttle wrapper is involved
InitFormat ==
    /\ clock = Epoch
    /\ mounted = FALSE
    /\ mode = "stopwatch"
    /\ initialTimeInMs = 0
    /\ onFinish = UNDEF
    /\ elapsedInMs = 0
    /\ startTime = NULL
    /\ pausedTime = NULL
    /\ intervalId = NULL
    /\ timers = {}
    /\ effects = NoEffects
    /\ thr = FreshThrottle
    /\ ot = NewOptimizedTimer
    /\ digitMountStates = NoDigitMounted
    /\ hist = [lastOp |-> "new"]
    /\ \E x \in FormatTimes, negative \in BOOLEAN, nh \in BOOLEAN :
          fmt = [timeInMs |-> IF negative THEN -x ELSE x, needHour |-> nh,
                 result |-> <<>>, negated |-> <<>>]

\* formatTimeWorklet(timeInMs, needHour)
FormatTime ==
    /\ fmt.result = <<>>
    /\ fmt' = [fmt EXCEPT
                 !.result = formatTimeWorklet(fmt.timeInMs, fmt.needHour)]
    /\ hist' = [hist EXCEPT !.lastOp = "format"]
    /\ UNCHANGED <<clock, mounted, mode, initialTimeInMs, onFinish,
                   elapsedInMs, startTime, pausedTime, intervalId, timers,
                   thr, effects, ot, digitMountStates>>

\* formatTimeWorklet(-timeInMs, needHour)
FormatNegated ==
    /\ fmt.negated = <<>>
    /\ fmt' = [fmt EXCEPT
                 !.negated = formatTimeWorklet(-fmt.timeInMs, fmt.needHour)]
    /\ hist' = [hist EXCEPT !.lastOp = "formatNegated"]
    /\ UNCHANGED <<clock, mounted, mode, initialTimeInMs, onFinish,
                   elapsedInMs, startTime, pausedTime, intervalId, timers,
                   thr, effects, ot, digitMountStates>>

NextFormat == FormatTime \/ FormatNegated

SpecFormat == InitFormat /\ [][NextFormat]_vars

\* -------------------------------------------------------- OptimizedTimer
\* The methods work on s = [ot, timers]: the object and the intervals the
\* host has scheduled.
\* stop() that forgets the handle without clearing the interval
stop_KeepInterval(s) ==
    [s EXCEPT !.ot.intervalId = NULL, !.ot.isRunning = FALSE]

\* stop()
stop(s) ==
    [ot |-> [s.ot EXCEPT !.intervalId = NULL, !.isRunning = FALSE],
     timers |-> IF s.ot.intervalId # NULL
                  THEN ClearInterval(s.timers, s.ot.intervalId)
                  ELSE s.timers]

\* start()
start(s) ==
    IF s.ot.isRunning THEN s
    ELSE LET h == NewHandle(s.timers)
         IN  [ot |-> [s.ot EXCEPT !.isRunning = TRUE, !.intervalId = h],
              timers |-> s.timers
                           \cup {[id |-> h, due |-> clock + OtIntervalMs]}]

\* addCallback(callback), without the function it returns
addCallback(s, callback) ==
    LET a == [s EXCEPT !.ot.callbacks = @ \cup {callback}]
    IN  IF ~a.ot.isRunning THEN start(a) ELSE a

\* a returned function that stops an empty timer but deletes nothing
removeCallback_NoDelete(s, callback) ==
    IF s.ot.callbacks = {} THEN stop(s) ELSE s

\* the function addCallback(callback) returned
removeCallback(s, callback) ==
    LET a == [s EXCEPT !.ot.callbacks = @ \ {callback}]
    IN  IF a.ot.callbacks = {} THEN stop(a) ELSE a

\* cleanup()
cleanup(s) == stop([s EXCEPT !.ot.callbacks = {}])

\* hist observes: the build flag __DEV__, the functions addCallback has
\* returned a cleanup function for (issued), those whose cleanup function
\* was called since they were last added (removed), and of the last tick
\* the callbacks registered before it, those it invoked, those that threw
\* and those whose error went to console.error; for each function the
\* number of its registrations whose own cleanup function has not been
\* called (regs), and the functions with a cleanup function already used
\* (spent).
InitOptimizedTimer ==
    /\ clock = Epoch
    /\ mounted = FALSE
    /\ mode = "stopwatch"
    /\ initialTimeInMs = 0
    /\ onFinish = UNDEF
    /\ elapsedInMs = 0
    /\ startTime = NULL
    /\ pausedTime = NULL
    /\ intervalId = NULL
    /\ timers = {}
    /\ effects = NoEffects
    /\ thr = FreshThrottle
    /\ fmt = NoFormat
    /\ digitMountStates = NoDigitMounted
    /\ ot = NewOptimizedTimer
    /\ \E dev \in BOOLEAN :
          hist = [lastOp |-> "new", dev |-> dev, issued |-> {},
                  removed |-> {}, before |-> {}, invoked |-> {},
                  threw |-> {}, reported |-> {},
                  regs |-> [c \in OtCallbacks |-> 0], spent |-> {}]

OtOthersUnchanged ==
    UNCHANGED <<mounted, mode, initialTimeInMs, onFinish, elapsedInMs,
                startTime, pausedTime, intervalId, effects, thr, fmt,
                digitMountStates>>

\* what a step that is not a tick records
OtQuiet(h) == [h EXCEPT !.before = {}, !.invoked = {}, !.threw = {},
                        !.reported = {}]

\* timer.addCallback(callback)
AddCallback(callback) ==
    /\ hist.regs[callback] < MaxRegs
    /\ LET a == addCallback([ot |-> ot, timers |-> timers], callback)
       IN  ot' = a.ot /\ timers' = a.timers
    /\ hist' = [OtQuiet(hist) EXCEPT
                  !.lastOp = "addCallback",
                  !.issued = @ \cup {callback},
                  !.removed = @ \ {callback},
                  !.regs = [@ EXCEPT ![callback] = @ + 1]]
    /\ UNCHANGED clock
    /\ OtOthersUnchanged

\* a call of a function an earlier addCallback(callback) returned: one not
\* called before, or (again) one that was
RemoveCallback(callback, again) ==
    /\ callback \in hist.issued
    /\ IF again THEN callback \in hist.spent ELSE hist.regs[callback] > 0
    /\ LET a == removeCallback([ot |-> ot, timers |-> timers], callback)
       IN  ot' = a.ot /\ timers' = a.timers
    /\ hist' = [OtQuiet(hist) EXCEPT
                  !.lastOp = "removeCallback",
                  !.removed = @ \cup {callback},
                  !.regs = [@ EXCEPT ![callback] =
                                IF again THEN @ ELSE @ - 1],
                  !.spent = @ \cup {callback}]
    /\ UNCHANGED clock
    /\ OtOthersUnchanged

\* timer.cleanup()
Cleanup ==
    /\ LET a == cleanup([ot |-> ot, timers |-> timers])
       IN  ot' = a.ot /\ timers' = a.timers
    /\ hist' = [OtQuiet(hist) EXCEPT
                  !.lastOp = "cleanup",
                  !.removed = hist.issued,
                  !.regs = [c \in OtCallbacks |-> 0],
                  !.spent = hist.issued]
    /\ UNCHANGED clock
    /\ OtOthersUnchanged

\* the host runs the interval callback of t; the callbacks in throwing
\* throw, each inside its own try/catch
OtTick(t, throwing) ==
    /\ clock >= t.due
    /\ timers' = (timers \ {t}) \cup {[id |-> t.id,
                                       due |-> clock + OtIntervalMs]}
    /\ hist' = [hist EXCEPT
                  !.lastOp = "tick",
                  !.before = ot.callbacks,
                  !.invoked = ot.callbacks,
                  !.threw = throwing,
                  !.reported = IF hist.dev THEN throwing ELSE {}]
    /\ UNCHANGED <<clock, ot>>
    /\ OtOthersUnchanged

\* Date.now() moves on by d
OtAdvance(d) ==
    /\ clock + d <= Epoch + MaxRun
    /\ clock' = clock + d
    /\ hist' = [OtQuiet(hist) EXCEPT !.lastOp = "advance"]
    /\ UNCHANGED <<ot, timers>>
    /\ OtOthersUnchanged

NextOptimizedTimer ==
    \/ \E callback \in OtCallbacks : AddCallback(callback)
    \/ \E callback \in OtCallbacks, again \in BOOLEAN :
           RemoveCallback(callback, again)
    \/ Cleanup
    \/ \E t \in timers : \E throwing \in SUBSET ot.callbacks :
           OtTick(t, throwing)
    \/ \E d \in Steps : OtAdvance(d)

SpecOptimizedTimer ==
    InitOptimizedTimer /\ [][NextOptimizedTimer]_vars

\* ------------------------------------------------- the fields displayed
\* the hook's memoized fields computed from the snapshot without Math.abs
timeValues_NoAbs(needHour) ==
    LET snapshot == initialTimeInMs + elapsedInMs * direction
        countInSeconds == snapshot \div 1000
    IN  [tensOfMs |-> (snapshot \div 10) % 100,
         lastDigit |-> countInSeconds % 10,
         tens |-> (countInSeconds \div 10) % 6,
         minutes |-> IF needHour THEN (countInSeconds % 3600) \div 60
                     ELSE countInSeconds \div 60,
         minutestens |-> IF needHour THEN (countInSeconds % 3600) \div 60
                         ELSE countInSeconds \div 60,
         hours |-> countInSeconds \div 3600]

\* useTimer's timeValues: the fields the hook returns for display
timeValues(needHour) ==
    LET snapshot == Abs(initialTimeInMs + elapsedInMs * direction)
        countInSeconds == snapshot \div 1000
    IN  [tensOfMs |-> (snapshot \div 10) % 100,
         lastDigit |-> countInSeconds % 10,
         tens |-> (countInSeconds \div 10) % 6,
         minutes |-> IF needHour THEN (countInSeconds % 3600) \div 60
                     ELSE countInSeconds \div 60,
         minutestens |-> IF needHour THEN (countInSeconds % 3600) \div 60
                         ELSE countInSeconds \div 60,
         hours |-> countInSeconds \div 3600]

\* configured durations and elapsed times, a timer's overshoot included
DisplayDurations == {0, 59000, 3600000, 3665000}
DisplayElapsed == {0, 432, 5000, 65432, 3599999, 7265432}

NoTimeValues ==
    [tensOfMs |-> 0, lastDigit |-> 0, tens |-> 0, minutes |-> 0,
     minutestens |-> 0, hours |-> 0]

\* a rendered engine with some configuration and elapsed time
InitDisplay ==
    /\ clock = Epoch
    /\ mounted = TRUE
    /\ mode \in Modes
    /\ initialTimeInMs \in DisplayDurations
    /\ onFinish = UNDEF
    /\ elapsedInMs \in DisplayElapsed
    /\ startTime = NULL
    /\ pausedTime = NULL
    /\ intervalId = NULL
    /\ timers = {}
    /\ effects = NoEffects
    /\ thr = FreshThrottle
    /\ ot = NewOptimizedTimer
    /\ digitMountStates = NoDigitMounted
    /\ \E n \in BOOLEAN : fmt = [NoFormat EXCEPT !.needHour = n]
    /\ hist = [lastOp |-> "render", rendered |-> FALSE, formatted |-> FALSE,
               timeValues |-> NoTimeValues]

DisplayOthersUnchanged ==
    UNCHANGED <<clock, mounted, mode, initialTimeInMs, onFinish, elapsedInMs,
                startTime, pausedTime, intervalId, timers, thr, effects, ot,
                digitMountStates>>

\* the render computes the memoized fields
RenderTimeValues ==
    /\ ~hist.rendered
    /\ hist' = [hist EXCEPT !.lastOp = "timeValues", !.rendered = TRUE,
                            !.timeValues = timeValues(fmt.needHour)]
    /\ UNCHANGED fmt
    /\ DisplayOthersUnchanged

\* formatTimeWorklet(getSnapshot(), needHour)
FormatSnapshot ==
    /\ ~hist.formatted
    /\ fmt' = [fmt EXCEPT !.timeInMs = getSnapshot,
                          !.result = formatTimeWorklet(getSnapshot,
                                                       fmt.needHour)]
    /\ hist' = [hist EXCEPT !.lastOp = "format", !.formatted = TRUE]
    /\ DisplayOthersUnchanged

NextDisplay ==
    \/ RenderTimeValues
    \/ FormatSnapshot

SpecDisplay == InitDisplay /\ [][NextDisplay]_vars

\* ------------------------------------------------ digit entry animations
\* The four digit elements of StopwatchTimer are keyed by their value, so
\* every change of a digit mounts a new element and calls the entering
\* worklet of its slot.
EnterAnimationTypes == {"slide-in-up", "slide-in-down"}

\* the worklet without the spread of the other slots' flags
createEntering_DropOthers(states, digitType, enterAnimationType) ==
    IF ~states[digitType]
    THEN [states |-> [NoDigitMounted EXCEPT ![digitType] = TRUE],
          animated |-> FALSE, enterDirection |-> 0]
    ELSE [states |-> states, animated |-> TRUE,
          enterDirection |->
              IF enterAnimationType = "slide-in-up" THEN -1 ELSE 1]

\* createEntering(digitType)(values): the new digitMountStates.value and
\* the layout animation returned (empty on the slot's first call)
createEntering(states, digitType, enterAnimationType) ==
    IF ~states[digitType]
    THEN [states |-> [states EXCEPT ![digitType] = TRUE],
          animated |-> FALSE, enterDirection |-> 0]
    ELSE [states |-> states, animated |-> TRUE,
          enterDirection |->
              IF enterAnimationType = "slide-in-up" THEN -1 ELSE 1]

NoEntering == [animated |-> FALSE, enterDirection |-> 0]

InitDigits ==
    /\ clock = Epoch
    /\ mounted = TRUE
    /\ mode = "stopwatch"
    /\ initialTimeInMs = 0
    /\ onFinish = UNDEF
    /\ elapsedInMs = 0
    /\ startTime = NULL
    /\ pausedTime = NULL
    /\ intervalId = NULL
    /\ timers = {}
    /\ effects = NoEffects
    /\ thr = FreshThrottle
    /\ ot = NewOptimizedTimer
    /\ fmt = NoFormat
    /\ digitMountStates = NoDigitMounted
    /\ \E a \in EnterAnimationTypes :
           hist = [lastOp |-> "mount", enterAnimationType |-> a,
                   digitType |-> "seconds", before |-> NoDigitMounted,
                   first |-> FALSE, result |-> NoEntering,
                   calls |-> [d \in DigitTypes |-> 0]]

DigitsOthersUnchanged ==
    UNCHANGED <<clock, mounted, mode, initialTimeInMs, onFinish, elapsedInMs,
                startTime, pausedTime, intervalId, timers, thr, effects, ot,
                fmt>>

\* a digit of the slot changes: its new element enters
Entering(digitType) ==
    LET r == createEntering(digitMountStates, digitType,
                            hist.enterAnimationType) IN
    /\ digitMountStates' = r.states
    /\ hist' = [hist EXCEPT
           !.lastOp = "entering",
           !.digitType = digitType,
           !.before = digitMountStates,
           !.first = hist.calls[digitType] = 0,
           !.result = [animated |-> r.animated,
                       enterDirection |-> r.enterDirection],
           !.calls = [@ EXCEPT ![digitType] = Min(@ + 1, MaxEnter)]]
    /\ DigitsOthersUnchanged

\* the parent changes the enterAnimation prop: createEntering is rebuilt,
\* digitMountStates is kept
SetEnterAnimation(a) ==
    /\ a # hist.enterAnimationType
    /\ hist' = [hist EXCEPT !.lastOp = "props", !.enterAnimationType = a,
                            !.before = digitMountStates,
                            !.first = FALSE, !.result = NoEntering]
    /\ UNCHANGED digitMountStates
    /\ DigitsOthersUnchanged

\* the component is unmounted and mounted again: a new shared value
Remount ==
    /\ digitMountStates' = NoDigitMounted
    /\ hist' = [hist EXCEPT !.lastOp = "mount",
                            !.before = NoDigitMounted,
                            !.first = FALSE, !.result = NoEntering,
                            !.calls = [d \in DigitTypes |-> 0]]
    /\ DigitsOthersUnchanged

NextDigits ==
    \/ \E d \in DigitTypes : Entering(d)
    \/ \E a \in EnterAnimationTypes : SetEnterAnimation(a)
    \/ Remount

SpecDigits == InitDigits /\ [][NextDigits]_vars

\* ------------------------------------------------------- engine states
\* Paused: no interval handle and a pause reference
PausedState == intervalId = NULL /\ pausedTime # NULL

\* Idle: the state reset() leaves
IdleState ==
    /\ intervalId = NULL
    /\ startTime = NULL
    /\ pausedTime = NULL
    /\ elapsedInMs = 0

\* Finished in timer mode: the committed elapsed time equals the duration
TimerFinished ==
    /\ Idle
    /\ mode = "timer"
    /\ elapsedInMs = initialTimeInMs

\* C11: pause() on an engine that is already paused (by an earlier pause())
\* or idle (reset) changes no engine state, and a pause() that directly
\* follows a pause() returns the same snapshot.
C11_PauseWhilePausedIsNoOp ==
    [][(Pause /\ (\/ hist.lastOp \in {"pause", "reset"}
                  \/ PausedState
                  \/ IdleState))
         => (UNCHANGED engineVars /\ getSnapshot' = getSnapshot)]_vars

\* pause() has been called twice in a row, some time after the first call
\* stamped the pause reference
C11_Witness ==
    /\ hist.lastOp = "pause"
    /\ hist.repeat
    /\ pausedTime # NULL
    /\ pausedTime < clock
    /\ elapsedInMs > 0

\* C12: after reset(), whatever the state it was called in, no interval is
\* scheduled, the handle is cleared, elapsedInMs is 0 and the start and the
\* pause reference are null.
C12_ResetClearsEngine ==
    hist.lastOp = "reset" =>
        /\ timers = {}
        /\ intervalId = NULL
        /\ elapsedInMs = 0
        /\ startTime = NULL
        /\ pausedTime = NULL

\* reset() was called on a running engine and its effects have run
C12_Witness ==
    /\ hist.lastOp = "reset"
    /\ hist.wasRunning
    /\ effects = NoEffects
    /\ clock > Epoch

\* C13: in timer mode a finished engine stays finished until reset(), as
\* long as mode and duration are unchanged: no interval is scheduled, so no
\* tick fires, play() changes nothing and elapsedInMs stays the duration.
C13_FinishedIsTerminal ==
    [][(/\ TimerFinished
        /\ ~Reset
        /\ mode' = mode
        /\ initialTimeInMs' = initialTimeInMs)
         => (/\ timers = {}
             /\ timers' = {}
             /\ elapsedInMs' = initialTimeInMs
             /\ (Play => UNCHANGED engineVars))]_vars

\* play() has just been called on an engine that finished a countdown
C13_Witness ==
    /\ TimerFinished
    /\ hist.lastOp = "play"
    /\ initialTimeInMs > 0
    /\ timers = {}

\* C14: once pause(), reset() or unmount has returned, and until the next
\* play(), no interval is scheduled, so no sampling tick can fire.
C14_NoTickAfterStop == hist.stopped => timers = {}

\* a running engine was paused and time has passed since
C14_Witness ==
    /\ hist.stopped
    /\ hist.lastOp = "pause"
    /\ startTime # NULL
    /\ pausedTime # NULL
    /\ clock >= pausedTime + intervalMs

\* C15: with mode and duration unchanged and no reset, elapsedInMs never
\* decreases from one commit to the next, and it does not change while
\* the engine is stopped by pause().
C15_ElapsedNeverDecreases ==
    [][(/\ mounted
        /\ ~Reset
        /\ ~effects.reset
        /\ mode' = mode
        /\ initialTimeInMs' = initialTimeInMs)
         => (/\ elapsedInMs' >= elapsedInMs
             /\ (hist.stopped /\ hist'.stopped
                    => elapsedInMs' = elapsedInMs))]_vars

\* C16: getSnapshot() changes no engine state, nor the throttle wrapper or
\* the pending effects, and returns the same value when called again.
C16_GetSnapshotIsPure ==
    [][GetSnapshot
         => (/\ UNCHANGED <<engineVars, thr, effects>>
             /\ getSnapshot' = getSnapshot)]_vars

\* getSnapshot() has been called twice in a row on a running engine
C16_Witness ==
    /\ hist.lastOp = "getSnapshot"
    /\ hist.repeat
    /\ timers # {}
    /\ elapsedInMs > 0
    /\ clock > startTime + elapsedInMs

\* C17: in stopwatch mode with autostart, the engine is running once the
\* mount effects have run; without autostart no interval is scheduled
\* before the first play().
C17_AutostartRunsAfterMount ==
    /\ (hist.lastOp = "autostart" /\ mode = "stopwatch")
          => (/\ Cardinality(timers) = 1
              /\ intervalId # NULL
              /\ startTime = Epoch)
    /\ ~hist.played => (timers = {} /\ intervalId = NULL)

\* the mount effects of an autostarted stopwatch have run
C17_Witness ==
    /\ hist.lastOp = "autostart"
    /\ mode = "stopwatch"
    /\ effects = NoEffects
    /\ timers # {}

\* ---------------------------------------------------- throttle wrapper
\* C18: with leading enabled, a call made when fn was not invoked within
\* the preceding ThrottleWait invokes fn at once with that call's argument
\* and records the time of the call; a call at the instant fn was invoked
\* does not invoke it again.
C18_LeadingCallInvokesAtOnce ==
    (hist.lastOp = "call" /\ thr.leading) =>
        /\ (hist.invokedBefore = 0
               \/ clock - hist.invokedBefore >= ThrottleWait)
             => (/\ hist.fired
                 /\ hist.firedArgs = hist.callArgs
                 /\ thr.previous = clock)
        /\ hist.invokedBefore = clock => ~hist.fired

\* with leading only, fn was invoked by a call and the wrapper has just
\* been called again at that instant
C18_Witness ==
    /\ hist.lastOp = "call"
    /\ thr.leading
    /\ ~thr.trailing
    /\ ~hist.fired
    /\ hist.invokedBefore = clock
    /\ thr.previous = clock
    /\ clock > Epoch

\* C19 as stated: with trailing enabled, a window in which calls were
\* suppressed ends with the deferred invocation of fn.
C19_WindowEndsWithDeferredCall ==
    (thr.trailing /\ hist.fired /\ hist.suppBefore >= 1)
        => hist.lastOp = "timer"

\* C19: with trailing enabled, while calls are suppressed in a window one
\* deferred invocation is pending, due at window start + ThrottleWait,
\* however many calls were made; the window ends either with that one
\* invocation, at or after its due time, or with a call made at or after
\* the due time that invokes fn itself and discards the deferred one.
C19_OneDeferredCallPerWindow ==
    thr.trailing =>
        /\ hist.supp >= 1 => thr.timeout = hist.winStart + ThrottleWait
        /\ hist.lastOp = "timer"
             => (/\ thr.timeout = NULL
                 /\ hist.supp = 0
                 /\ hist.suppBefore >= 1
                 /\ clock >= hist.winBefore + ThrottleWait)
        /\ (hist.fired /\ hist.suppBefore >= 1)
             => (/\ hist.lastOp \in {"timer", "call"}
                 /\ clock >= hist.winBefore + ThrottleWait)

\* the deferred invocation of a window with several suppressed calls has
\* run at window expiry
C19_Witness ==
    /\ thr.trailing
    /\ hist.lastOp = "timer"
    /\ hist.suppBefore = MaxSupp
    /\ clock = hist.winBefore + ThrottleWait

\* C20: the deferred invocation is made with the argument of the most
\* recent call to the wrapper.
C20_DeferredCallUsesLatestArgs ==
    hist.lastOp = "timer" => hist.firedArgs = hist.callArgs

\* the test "should throttle function calls correctly": default options,
\* three calls at the first instant, no cancel, and a fourth call made
\* just now, ThrottleWait later
ThreeCallsThenOne ==
    /\ thr.leading
    /\ thr.trailing
    /\ hist.lastOp = "call"
    /\ hist.cancels = 0
    /\ hist.nAtStart = 3
    /\ hist.nCalls = 4
    /\ clock = Epoch + ThrottleWait

\* C21 as stated: three calls at one instant invoke fn once, and the call
\* made ThrottleWait later invokes fn the second time.
C21_FourthCallInvokesSecondTime ==
    /\ (/\ thr.leading
        /\ thr.trailing
        /\ hist.cancels = 0
        /\ hist.nCalls = 3
        /\ hist.nAtStart = 3
        /\ clock = Epoch) => hist.nInvoked = 1
    /\ ThreeCallsThenOne => (hist.fired /\ hist.nInvoked = 2)

\* C21: three calls at one instant invoke fn once; when the call made
\* ThrottleWait later returns fn has been invoked exactly twice, the
\* second time by that call if it ran before the deferred invocation of
\* the first window, and otherwise by that deferred invocation, in which
\* case the call is suppressed and arms the next deferred invocation.
C21_TwoInvocationsAfterFourthCall ==
    /\ (/\ thr.leading
        /\ thr.trailing
        /\ hist.cancels = 0
        /\ hist.nCalls = 3
        /\ hist.nAtStart = 3
        /\ clock = Epoch) => hist.nInvoked = 1
    /\ ThreeCallsThenOne =>
         /\ hist.nInvoked = 2
         /\ hist.fired <=> hist.invokedBefore = Epoch
         /\ ~hist.fired =>
              /\ hist.invokedBefore = clock
              /\ thr.timeout = clock + ThrottleWait

\* the fourth call of the test was made after the deferred invocation ran
C21_Witness ==
    /\ ThreeCallsThenOne
    /\ ~hist.fired
    /\ hist.nInvoked = 2

C24_AtMostOnePendingTimer ==
    /\ Cardinality(timers) <= 1
    /\ thr.timeout = NULL <=> timers = {}
    /\ \A t \in timers : t.id = thr.timeout

\* a call at window expiry has discarded the pending deferred invocation
\* and the next call has armed a new one
C24_Witness ==
    /\ Cardinality(timers) = 1
    /\ hist.lastOp = "call"
    /\ hist.nCalls >= 3
    /\ hist.nInvoked = 1
    /\ hist.lastInvoke > Epoch
    /\ ~thr.leading

C26_FieldsInRange ==
    fmt.result # <<>> =>
        /\ fmt.result.tens \in 0..5
        /\ fmt.result.lastDigit \in 0..9
        /\ fmt.result.tensOfMs \in 0..99
        /\ fmt.needHour => fmt.result.minutes \in 0..59

\* a negative time of more than an hour, with 59 minutes, 59 seconds and
\* 999 ms, has been formatted with needHour
C26_Witness ==
    /\ fmt.result # <<>>
    /\ fmt.needHour
    /\ fmt.timeInMs < -3600000
    /\ fmt.result.minutes = 59
    /\ fmt.result.tens = 5
    /\ fmt.result.lastDigit = 9
    /\ fmt.result.tensOfMs = 99

\* C27: formatTimeWorklet(-x, needHour) = formatTimeWorklet(x, needHour).
C27_NegatedTimeFormatsAlike ==
    (fmt.result # <<>> /\ fmt.negated # <<>>) => fmt.result = fmt.negated

\* -5000 ms and 5000 ms have both been formatted
C27_Witness ==
    /\ fmt.timeInMs = -5000
    /\ fmt.result # <<>>
    /\ fmt.negated # <<>>
    /\ fmt.result.lastDigit = 5

\* -------------------------------------------------------- OptimizedTimer
\* C28: a tick invokes every registered callback whichever of them throw,
\* every error thrown is reported, and the interval stays scheduled.
C28_ThrowingCallbackIsIsolated ==
    hist.lastOp = "tick" =>
        /\ hist.invoked = hist.before
        /\ hist.reported = hist.threw
        /\ ot.isRunning
        /\ \E t \in timers : t.id = ot.intervalId

\* C29: the interval is scheduled, and the timer marked running, exactly
\* when at least one callback is in the set; the host never holds another
\* interval than the one the timer knows.
C29_RunningIffCallbacks ==
    /\ ot.isRunning <=> ot.callbacks # {}
    /\ ot.intervalId # NULL <=> ot.callbacks # {}
    /\ timers # {} <=> ot.callbacks # {}
    /\ Cardinality(timers) <= 1
    /\ \A t \in timers : t.id = ot.intervalId

\* the last of two callbacks has just been removed, which stopped the timer
C29_Witness ==
    /\ hist.lastOp = "removeCallback"
    /\ Cardinality(hist.removed) = 2
    /\ ot.callbacks = {}
    /\ timers = {}
    /\ clock > Epoch

\* C30: a tick invokes no callback whose cleanup function was called since
\* it was last added, and invokes every callback still registered.
C30_RemovedCallbackNotInvoked ==
    hist.lastOp = "tick" =>
        /\ hist.invoked \cap hist.removed = {}
        /\ hist.invoked = ot.callbacks
        /\ hist.invoked = hist.issued \ hist.removed

\* a tick has run after one of two callbacks was removed
C30_Witness ==
    /\ hist.lastOp = "tick"
    /\ Cardinality(hist.removed) = 1
    /\ Cardinality(hist.invoked) = 1
    /\ Cardinality(hist.issued) = 2

\* --------------------------------------------- engine: handle and finish
\* C32: in every state of a mounted engine whose effects have run, the
\* interval handle is non-null exactly when one sampling interval is
\* scheduled with the host, and never more than one is scheduled
C32_HandleMatchesInterval ==
    /\ Cardinality(timers) <= 1
    /\ Idle => /\ intervalId # NULL <=> timers # {}
               /\ \A t \in timers : t.id = intervalId

\* C33: a change of initialTimeInMs or mode alone (onFinish keeps its
\* identity) never leads the effects of that render to invoke onFinish
C33_ConfigChangeNeverFinishes ==
    hist.lastOp = "config" => ~(hist.fired /\ onFinish # UNDEF)

\* play() was accepted by an engine that was not running, in timer mode
\* with a positive duration that fits the time modelled
PlayedTimer ==
    /\ hist.lastOp = "play"
    /\ ~hist.wasRunning
    /\ timers # {}
    /\ mode = "timer"
    /\ initialTimeInMs > 0
    /\ onFinish # UNDEF
    /\ clock + initialTimeInMs <= Epoch + MaxRun

\* C34: in timer mode with a positive duration, after play() on an engine
\* that is not running, with no pause, reset, unmount or change of duration,
\* the engine eventually finishes and invokes onFinish
C34_PlayLeadsToFinish ==
    PlayedTimer ~> (hist.fired /\ onFinish # UNDEF)

\* ------------------------------------------- throttle: spacing, delivery
\* C36: while cancel() has not been called, two successive invocations of
\* fn are at least the wait apart, whatever the options and however late
\* the timer callback runs
C36_InvocationsWaitApart ==
    (hist.fired /\ hist.invokedBefore # 0 /\ hist.cancels = 0) =>
        clock - hist.invokedBefore >= ThrottleWait

\* two invocations exactly the wait apart, the later one deferred, with
\* leading disabled
C36_Witness ==
    /\ hist.lastOp = "timer"
    /\ hist.invokedBefore # 0
    /\ hist.cancels = 0
    /\ ~thr.leading
    /\ clock - hist.invokedBefore = ThrottleWait

\* a call with trailing enabled that did not invoke fn, made while the
\* wait still fits the time modelled
SuppressedCall ==
    /\ hist.lastOp = "call"
    /\ ~hist.fired
    /\ thr.trailing
    /\ clock + ThrottleWait <= Epoch + MaxRun

\* C37: with trailing enabled and no cancel(), every call of the wrapper is
\* followed, at that instant or later, by an invocation of fn
C37_CallLeadsToInvocation ==
    [](thr.trailing /\ hist.cancels = 0 /\ hist.lastOp = "call" =>
          hist.fired \/ timers # {})
    /\ (SuppressedCall ~> hist.fired)

\* the deferred invocation that follows suppressed calls, leading disabled
\* or not
C37_Witness ==
    /\ hist.lastOp = "timer"
    /\ hist.fired
    /\ thr.trailing
    /\ hist.suppBefore = MaxSupp

\* ------------------------------------------------- the fields displayed
\* C35: the display fields the engine emits equal
\* formatTimeWorklet(getSnapshot(), needHour), and the value decomposed is
\* |initialTimeInMs - elapsedInMs| in timer mode and
\* initialTimeInMs + elapsedInMs in stopwatch mode
C35_TimeValuesMatchFormat ==
    (hist.rendered /\ hist.formatted) =>
        /\ \A f \in {"tensOfMs", "lastDigit", "tens", "minutes", "hours"} :
               hist.timeValues[f] = fmt.result[f]
        /\ fmt.timeInMs = IF mode = "timer"
                            THEN Abs(initialTimeInMs - elapsedInMs)
                            ELSE initialTimeInMs + elapsedInMs
        /\ hist.timeValues.hours * 3600000
               + (IF fmt.needHour THEN hist.timeValues.minutes * 60000
                  ELSE (hist.timeValues.minutes % 60) * 60000)
               + hist.timeValues.tens * 10000
               + hist.timeValues.lastDigit * 1000
               + hist.timeValues.tensOfMs * 10
               = (fmt.timeInMs \div 10) * 10

\* a timer past its duration by more than an hour, shown with hours
C35_Witness ==
    /\ hist.rendered
    /\ hist.formatted
    /\ mode = "timer"
    /\ elapsedInMs > initialTimeInMs
    /\ fmt.needHour
    /\ hist.timeValues.hours > 0
    /\ hist.timeValues.tensOfMs > 0

\* C38: the wrapper around onFinish never has a deferred invocation
\* pending, so onFinish runs only inside the completion effect that called
\* the wrapper and never while the engine is unmounted
C38_NoDeferredOnFinish ==
    /\ thr.timeout = NULL
    /\ hist.fired => hist.thrCalled /\ mounted
    /\ ~mounted => ~hist.fired

\* the completion effect called the wrapper inside its window: the call
\* was dropped and nothing was deferred
C38_Witness ==
    /\ hist.thrCalled
    /\ ~hist.fired
    /\ onFinish # UNDEF
    /\ thr.previous # 0
    /\ thr.timeout = NULL

\* ------------------------------------------------ digit entry animations
\* C31: for each digit slot the entry animation is suppressed on exactly the
\* first entering call since mount, which sets that slot's flag and leaves
\* the other flags alone; every later call animates and changes no flag;
\* a flag that is set stays set
C31_FirstEnteringIsSuppressed ==
    /\ hist.lastOp = "entering" =>
           LET d == hist.digitType IN
           /\ ~hist.result.animated <=> hist.first
           /\ hist.first =>
                  /\ ~hist.before[d]
                  /\ digitMountStates = [hist.before EXCEPT ![d] = TRUE]
           /\ ~hist.first =>
                  /\ digitMountStates = hist.before
                  /\ hist.result.enterDirection =
                         IF hist.enterAnimationType = "slide-in-up"
                         THEN -1 ELSE 1
    /\ hist.lastOp # "mount" =>
           \A d \in DigitTypes : hist.before[d] => digitMountStates[d]
    /\ \A d \in DigitTypes : digitMountStates[d] <=> hist.calls[d] > 0

\* a second slot enters for the first time while another is already mounted,
\* and a slot enters again
C31_Witness ==
    /\ hist.lastOp = "entering"
    /\ hist.first
    /\ \E d \in DigitTypes : d # hist.digitType /\ hist.before[d]
    /\ \E d \in DigitTypes : hist.calls[d] = MaxEnter

\* ------------------------------------------ OptimizedTimer registrations
\* C39: a registration stays active until its own cleanup function is
\* called: while a function has a registration outstanding the interval is
\* scheduled and every tick invokes the function
C39_RegistrationOutlivesOtherCleanup ==
    \A c \in OtCallbacks :
        hist.regs[c] > 0 =>
            /\ timers # {}
            /\ hist.lastOp = "tick" => c \in hist.invoked

====
